---- MODULE Spec2Model ----
(***************************************************************************)
(* MunkiRebrander.main and the routines it calls (replace_strings,        *)
(* replace_nib, convert_to_icns, run_cmd), as a state machine over the     *)
(* unpacked tree.                                                          *)
(*                                                                         *)
(* Text is a sequence of tokens.  "NL" is the line terminator, "=" the     *)
(* assignment separator and "/*" the comment marker.  Each localized name  *)
(* of APPNAME_LOCALIZED is written as two tokens, its first and its last   *)
(* word, so that a name is a proper multi-token substring: occurrences can *)
(* be split by a line break, completed by neighbouring text, or contained  *)
(* in the desired name.  No name of the table overlaps itself, which the   *)
(* two-token form keeps.                                                   *)
(*                                                                         *)
(* A file is [form, text]: form is how the bytes on disk encode the text   *)
(* ("utf16" for a .strings file, "binary1" or "xml1" for a .nib file);     *)
(* plutil changes the form and keeps the text.  Texts are the decoded      *)
(* text io.open hands to the loops; byte order marks and the translation   *)
(* of line terminators by io.open are below what is modelled.  A language  *)
(* directory is a direct child of Resources, as glob finds them, and its   *)
(* files are the files os.walk yields under it.                            *)
(***************************************************************************)
EXTENDS Integers, Sequences, FiniteSets, TLC

VARIABLES
    env,        \* self.env: app_name and icon_file
    tree,       \* the resource files of the unpacked tree (paths)
    files,      \* path -> the file at that path, NoFile when there is none
    bak,        \* path -> the shadow file '<path>.bak'
    icons,      \* app -> what the app's .icns file holds
    tmp,        \* the directories mkdtemp has created, in creation order
    appIdx,     \* position of 'for app in APPS'
    todoDirs,   \* lproj dirs of the current app not yet visited
    curDir,     \* lproj_dir
    todoFiles,  \* files of lproj_dir not yet visited
    cur,        \* lfile, while replace_strings / replace_nib runs on it
    lineNo,     \* lines of the file read so far by 'for line in fr'
    tmpCur,     \* temp_dir of the running convert_to_icns, 0 when none
    sizeIdx,    \* position of 'for hw, suffix in ICON_SIZES'
    pc,         \* the statement main is at
    status,     \* "running", "done" (main returned) or "aborted" (it raised)
    error,      \* the exception that ended the run
    orig,       \* history: files at the start of the run
    visited,    \* history: paths replace_strings / replace_nib was called on, in order
    finished,   \* history: paths on which that call returned
    steps,      \* history: path -> the steps taken on it, in order
    skipped,    \* history: lproj dirs passed over as unknown
    second      \* history: TRUE in a second run on the tree of a first one

world == <<files, bak, icons, tmp>>
ctl   == <<appIdx, todoDirs, curDir, todoFiles, cur, lineNo, tmpCur, sizeIdx, pc>>
hist  == <<orig, visited, finished, steps, skipped, second>>
vars  == <<env, tree, files, bak, icons, tmp, appIdx, todoDirs, curDir,
           todoFiles, cur, lineNo, tmpCur, sizeIdx, pc, status, error, orig,
           visited, finished, steps, skipped, second>>

----------------------------------------------------------------------------
(* Bounds of the input sets.                                               *)

MaxLen == 4       \* longest file text drawn in SpecText, in tokens

----------------------------------------------------------------------------
(* Module constants of MunkiRebrander.py.                                  *)

APPNAME_LOCALIZED ==
    [c \in {"da", "de", "en", "en_AU", "en_GB", "en_CA", "es", "fi", "fr",
            "it", "ja", "nb", "nl", "ru", "sv"} |->
        CASE c \in {"da", "en", "fi", "ja", "nb", "nl", "sv"} -> <<"Managed", "Center">>
          [] c \in {"en_AU", "en_GB", "en_CA"} -> <<"Managed", "Centre">>
          [] c = "de" -> <<"Gefuhrte", "Softwareaktualisierung">>
          [] c = "es" -> <<"Centro", "aplicaciones">>
          [] c = "fr" -> <<"Centre", "logiciels">>
          [] c = "it" -> <<"Centro", "Applicazioni">>
          [] c = "ru" -> <<"Tsentr", "PO">>]

MSC_APP == [path |-> "MSC/Contents/Resources", icon |-> "Managed Software Center.icns"]
MS_APP  == [path |-> "MSC/Contents/Resources/MunkiStatus.app/Contents/Resources",
            icon |-> "MunkiStatus.icns"]

APPS == <<MSC_APP, MS_APP>>

ICON_SIZES ==
    << <<16, "16x16">>,     <<32, "16x16@2x">>,
       <<32, "32x32">>,     <<64, "32x32@2x">>,
       <<128, "128x128">>,  <<256, "128x128@2x">>,
       <<256, "256x256">>,  <<512, "256x256@2x">>,
       <<512, "512x512">>,  <<1024, "512x512@2x">> >>

----------------------------------------------------------------------------
(* Python's str operations on token sequences.                             *)

\* 'tok in line'
Contains(line, tok) == \E i \in DOMAIN line : line[i] = tok

\* line.startswith(prefix)
StartsWith(line, prefix) ==
    /\ Len(line) >= Len(prefix)
    /\ SubSeq(line, 1, Len(prefix)) = prefix

\* s.find(old): the first index at which old occurs in s, 0 when there is none
Find(s, old) ==
    LET hits == {i \in 1..(Len(s) - Len(old) + 1) : SubSeq(s, i, i + Len(old) - 1) = old}
    IN  IF hits = {} THEN 0 ELSE CHOOSE i \in hits : \A j \in hits : i <= j

\* s.replace(old, new): every non-overlapping occurrence, scanning left to right
RECURSIVE PyReplace(_, _, _)
PyReplaceFirst(s, old, new) ==
    LET i == Find(s, old)
    IN  IF i = 0 THEN s
        ELSE SubSeq(s, 1, i - 1) \o new \o SubSeq(s, i + Len(old), Len(s))
PyReplace(s, old, new) ==
    LET i == Find(s, old)
    IN  IF i = 0 THEN s
        ELSE SubSeq(s, 1, i - 1) \o new
             \o PyReplace(SubSeq(s, i + Len(old), Len(s)), old, new)

\* s.split(sep) for a one-token separator: the segments between separators
RECURSIVE PySplit(_, _)
PySplit(s, sep) ==
    LET i == Find(s, <<sep>>)
    IN  IF i = 0 THEN <<s>>
        ELSE <<SubSeq(s, 1, i - 1)>> \o PySplit(SubSeq(s, i + 1, Len(s)), sep)

\* sep.join(parts)
RECURSIVE PyJoin(_, _)
PyJoinSpaced(sep, parts) ==
    IF Len(parts) = 0 THEN <<>>
    ELSE IF Len(parts) = 1 THEN parts[1]
    ELSE parts[1] \o <<" ", sep, " ">> \o PyJoin(sep, Tail(parts))
PyJoin(sep, parts) ==
    IF Len(parts) = 0 THEN <<>>
    ELSE IF Len(parts) = 1 THEN parts[1]
    ELSE parts[1] \o <<sep>> \o PyJoin(sep, Tail(parts))

\* 'for line in fr': the lines of a text, each with its terminator; the last
\* line has none when the text does not end in one
RECURSIVE ReadLines(_)
ReadLines(text) ==
    IF text = <<>> THEN <<>>
    ELSE LET i == Find(text, <<"NL">>)
             e == IF i = 0 THEN Len(text) ELSE i
         IN  <<SubSeq(text, 1, e)>> \o ReadLines(SubSeq(text, e + 1, Len(text)))

----------------------------------------------------------------------------
(* The unpacked tree.  A path is the application (an index of APPS), the   *)
(* directory under its Resources directory and the file name, the two      *)
(* names split at their dots.                                              *)

EnStrings == [app |-> 1, dir |-> <<"en", "lproj">>, file |-> <<"Localizable", "strings">>]
EnNib     == [app |-> 1, dir |-> <<"en", "lproj">>, file |-> <<"MainMenu", "nib">>]
EnRtf     == [app |-> 1, dir |-> <<"en", "lproj">>, file |-> <<"Credits", "rtf">>]
XxStrings == [app |-> 1, dir |-> <<"xx", "lproj">>, file |-> <<"Localizable", "strings">>]
XxNib     == [app |-> 1, dir |-> <<"xx", "lproj">>, file |-> <<"MainMenu", "nib">>]
DeStrings == [app |-> 2, dir |-> <<"de", "lproj">>, file |-> <<"Localizable", "strings">>]
DeNib     == [app |-> 2, dir |-> <<"de", "lproj">>, file |-> <<"MainMenu", "nib">>]

Paths == {EnStrings, EnNib, EnRtf, XxStrings, XxNib, DeStrings, DeNib}

NoPath == [app |-> 0, dir |-> <<>>, file |-> <<>>]
NoFile == [form |-> "absent", text |-> <<>>]

\* fnmatch.fnmatch(lfile, '*.<ext>')
Fnmatch(p, ext) == Len(p.file) >= 2 /\ p.file[Len(p.file)] = ext

\* The encoding a resource file of the tree is stored in.
NativeForm(p) ==
    IF Fnmatch(p, "strings") THEN "utf16"
    ELSE IF Fnmatch(p, "nib") THEN "binary1"
    ELSE "bytes"

\* glob.glob(os.path.join(resources_dir, '*.lproj'))
LprojDirs(a) ==
    {p.dir : p \in {q \in tree : q.app = a /\ Len(q.dir) >= 2 /\ q.dir[Len(q.dir)] = "lproj"}}

\* code = os.path.basename(lproj_dir).split('.')[0]
LangCode(d) == d[1]

\* code in APPNAME_LOCALIZED.keys()
KnownAlways(code) == TRUE
Known(code) == code \in DOMAIN APPNAME_LOCALIZED

\* the files os.walk(lproj_dir) yields
WalkFiles(a, d) == {p \in tree : p.app = a /\ p.dir = d}

\* 'for file_ in files': what is left to visit after file_
RemainingBreakOnNib(fs, f) == IF Fnmatch(f, "nib") THEN {} ELSE fs \ {f}
Remaining(fs, f) == fs \ {f}

\* backup_file = '%s.bak' % file: the shadow file of a path, kept in bak
BackupFile(p) == p

----------------------------------------------------------------------------
(* The loop bodies of replace_strings and replace_nib.                     *)

\* replace_strings, lines 144-147: the line to write, or the ValueError of
\* unpacking a split that does not give two segments
StringsLine(line, localized, appname) ==
    IF Contains(line, "=") /\ ~StartsWith(line, <<"/*">>)
    THEN LET parts == PySplit(line, "=")
         IN  IF Len(parts) # 2
             THEN [raised |-> TRUE, line |-> line]
             ELSE [raised |-> FALSE,
                   line |-> PyJoin("=", <<parts[1], PyReplace(parts[2], localized, appname)>>)]
    ELSE [raised |-> FALSE, line |-> line]

\* replace_nib, line 160
NibLine(line, localized, appname) == PyReplace(line, localized, appname)

----------------------------------------------------------------------------
(* Exceptions: nothing in main or below it catches one.                    *)

RaiseAndGoOn(e) == status' = "running" /\ error' = e
Raise(e) == status' = "aborted" /\ error' = e

NoRaise == UNCHANGED <<status, error>>

Log(p, step) == steps' = [steps EXCEPT ![p] = Append(@, step)]

----------------------------------------------------------------------------
(* Inputs.                                                                 *)

\* Tokens of the file texts drawn exhaustively: the two tokens of the "en"
\* name, the separator, the comment marker and the line terminator.
Sigma == {"Managed", "Center", "=", "/*", "NL"}

Texts == UNION {[1..n -> Sigma] : n \in 0..MaxLen}

\* Desired names: empty; foreign to the "en" name; sharing its last word;
\* its first word alone; its words swapped; the "en" name itself; and a name
\* that contains the "en" name.
AppNames ==
    { <<>>, <<"Ace">>, <<"Ace", "Center">>, <<"Managed">>, <<"Center", "Managed">>,
      <<"Managed", "Center">>, <<"Managed", "Center", "Ace">> }

\* Texts of the full tree: a comment and an assignment that both hold the
\* "en" name; a "de" assignment followed by a line without separator that
\* holds the "en" name; a line with two separators.
SampleTexts ==
    { <<"/*", "=", "Managed", "Center", "NL", "Managed", "Center", "=", "Managed", "Center", "NL">>,
      <<"Gefuhrte", "=", "Gefuhrte", "Softwareaktualisierung", "NL", "Managed", "Center">>,
      <<"Managed", "=", "Center", "=", "Managed", "Center", "NL">> }

\* 'icon_file' in self.env, os.path.exists(icon_file), fnmatch(icon_file, '*.png')
NoIcon == [given |-> FALSE, exists |-> FALSE, ext |-> "none"]
IconInputs == {NoIcon} \cup [given : {TRUE}, exists : BOOLEAN, ext : {"png", "icns"}]

OriginalIcon == [kind |-> "original", from |-> 0]

InitRun(t, e, fs) ==
    /\ env = e
    /\ tree = t
    /\ files = fs
    /\ bak = [p \in Paths |-> NoFile]
    /\ icons = [a \in DOMAIN APPS |-> OriginalIcon]
    /\ tmp = <<>>
    /\ appIdx = 1
    /\ todoDirs = {}
    /\ curDir = <<>>
    /\ todoFiles = {}
    /\ cur = NoPath
    /\ lineNo = 0
    /\ tmpCur = 0
    /\ sizeIdx = 0
    /\ pc = "app"
    /\ status = "running"
    /\ error = "none"
    /\ orig = fs
    /\ visited = <<>>
    /\ finished = {}
    /\ steps = [p \in Paths |-> <<>>]
    /\ skipped = {}
    /\ second = FALSE

TreeOf(t, text) ==
    [p \in Paths |-> IF p \in t THEN [form |-> NativeForm(p), text |-> text] ELSE NoFile]

\* The full tree, every file holding the same sample text.
Init ==
    \E text \in SampleTexts, name \in AppNames, icon \in IconInputs :
        InitRun(Paths, [app_name |-> name, icon_file |-> icon], TreeOf(Paths, text))

\* One resource file in en.lproj, holding any text up to MaxLen; no icon.
InitText ==
    \E p \in {EnStrings, EnNib}, text \in Texts, name \in AppNames :
        InitRun({p}, [app_name |-> name, icon_file |-> NoIcon], TreeOf({p}, text))

----------------------------------------------------------------------------
(* main, lines 189-205: the walk over the lproj directories.               *)

\* 'for app in APPS' and the glob of its lproj directories
GlobLproj ==
    /\ status = "running" /\ pc = "app" /\ appIdx <= Len(APPS)
    /\ todoDirs' = LprojDirs(appIdx)
    /\ pc' = "lproj"
    /\ UNCHANGED <<appIdx, curDir, todoFiles, cur, lineNo, tmpCur, sizeIdx>>
    /\ NoRaise
    /\ UNCHANGED <<env, tree, world, hist>>

\* the loop over APPS is exhausted: main returns
MainReturn ==
    /\ status = "running" /\ pc = "app" /\ appIdx > Len(APPS)
    /\ status' = "done"
    /\ UNCHANGED <<error, env, tree, world, ctl, hist>>

\* 'for lproj_dir in lproj_dirs', in the order glob gives them
NextLproj ==
    /\ status = "running" /\ pc = "lproj"
    /\ IF todoDirs = {}
       THEN /\ pc' = "icon"
            /\ UNCHANGED <<todoDirs, curDir, todoFiles, skipped>>
       ELSE \E d \in todoDirs :
            /\ todoDirs' = todoDirs \ {d}
            /\ IF Known(LangCode(d))
               THEN /\ curDir' = d
                    /\ todoFiles' = WalkFiles(appIdx, d)
                    /\ pc' = "file"
                    /\ UNCHANGED skipped
               ELSE /\ skipped' = skipped \cup {<<appIdx, d>>}
                    /\ UNCHANGED <<curDir, todoFiles, pc>>
    /\ UNCHANGED <<appIdx, cur, lineNo, tmpCur, sizeIdx>>
    /\ NoRaise
    /\ UNCHANGED <<env, tree, world, orig, visited, finished, steps, second>>

\* 'for file_ in files', in the order os.walk gives them, and the dispatch on
\* the file's suffix
NextFile ==
    /\ status = "running" /\ pc = "file"
    /\ IF todoFiles = {}
       THEN /\ pc' = "lproj"
            /\ curDir' = <<>>
            /\ UNCHANGED <<todoFiles, cur, visited>>
       ELSE \E f \in todoFiles :
            /\ todoFiles' = Remaining(todoFiles, f)
            /\ UNCHANGED curDir
            /\ IF Fnmatch(f, "strings")
               THEN cur' = f /\ pc' = "s_open" /\ visited' = Append(visited, f)
               ELSE IF Fnmatch(f, "nib")
               THEN cur' = f /\ pc' = "n_xml" /\ visited' = Append(visited, f)
               ELSE UNCHANGED <<cur, pc, visited>>
    /\ UNCHANGED <<appIdx, todoDirs, lineNo, tmpCur, sizeIdx>>
    /\ NoRaise
    /\ UNCHANGED <<env, tree, world, orig, finished, steps, skipped, second>>

----------------------------------------------------------------------------
(* run_cmd, lines 114-122: the command's return code decides.              *)

ReturnCodes == {0, 1}

\* 'if proc.returncode is not 0: raise ProcessorError(err)'
Failed(rc) == rc # 0

----------------------------------------------------------------------------
(* replace_strings, lines 134-150.                                         *)

\* lines 137-140: look the name up, open the shadow file for writing and the
\* file for reading
ReplaceStringsOpen ==
    /\ status = "running" /\ pc = "s_open"
    /\ IF ~(LangCode(curDir) \in DOMAIN APPNAME_LOCALIZED)
       THEN /\ Raise("KeyError")
            /\ UNCHANGED <<bak, lineNo, pc, steps>>
       ELSE /\ bak' = [bak EXCEPT ![BackupFile(cur)] = [form |-> "utf16", text |-> <<>>]]
            /\ lineNo' = 0
            /\ pc' = "s_write"
            /\ Log(cur, "open_shadow")
            /\ NoRaise
    /\ UNCHANGED <<appIdx, todoDirs, curDir, todoFiles, cur, tmpCur, sizeIdx>>
    /\ UNCHANGED <<env, tree, files, icons, tmp, orig, visited, finished, skipped, second>>

\* lines 141-148: one turn of 'for line in fr', or the end of the with block
ReplaceStringsLine ==
    /\ status = "running" /\ pc = "s_write"
    /\ LET lines == ReadLines(files[cur].text)
           localized == APPNAME_LOCALIZED[LangCode(curDir)]
       IN  IF lineNo < Len(lines)
           THEN LET r == StringsLine(lines[lineNo + 1], localized, env.app_name)
                IN  IF r.raised
                    THEN /\ Raise("ValueError")
                         /\ UNCHANGED <<bak, lineNo, pc, steps>>
                    ELSE /\ bak' = [bak EXCEPT ![BackupFile(cur)].text = @ \o r.line]
                         /\ lineNo' = lineNo + 1
                         /\ NoRaise
                         /\ UNCHANGED <<pc, steps>>
           ELSE /\ pc' = "s_remove"
                /\ Log(cur, "write_shadow")
                /\ NoRaise
                /\ UNCHANGED <<bak, lineNo>>
    /\ UNCHANGED <<appIdx, todoDirs, curDir, todoFiles, cur, tmpCur, sizeIdx>>
    /\ UNCHANGED <<env, tree, files, icons, tmp, orig, visited, finished, skipped, second>>

\* line 149: os.remove(strings_file)
ReplaceStringsRemove ==
    /\ status = "running" /\ pc = "s_remove"
    /\ files' = [files EXCEPT ![cur] = NoFile]
    /\ pc' = "s_rename"
    /\ Log(cur, "remove")
    /\ NoRaise
    /\ UNCHANGED <<appIdx, todoDirs, curDir, todoFiles, cur, lineNo, tmpCur, sizeIdx>>
    /\ UNCHANGED <<env, tree, bak, icons, tmp, orig, visited, finished, skipped, second>>

\* line 150: os.rename(backup_file, strings_file); replace_strings returns
ReplaceStringsRename ==
    /\ status = "running" /\ pc = "s_rename"
    /\ files' = [files EXCEPT ![cur] = bak[BackupFile(cur)]]
    /\ bak' = [bak EXCEPT ![BackupFile(cur)] = NoFile]
    /\ Log(cur, "rename")
    /\ finished' = finished \cup {cur}
    /\ cur' = NoPath
    /\ pc' = "file"
    /\ NoRaise
    /\ UNCHANGED <<appIdx, todoDirs, curDir, todoFiles, lineNo, tmpCur, sizeIdx>>
    /\ UNCHANGED <<env, tree, icons, tmp, orig, visited, skipped, second>>

----------------------------------------------------------------------------
(* replace_nib, lines 152-164, with plist_to_xml and plist_to_binary.      *)

\* lines 154-156: look the name up, then plutil -convert xml1
PlistToXml ==
    /\ status = "running" /\ pc = "n_xml"
    /\ IF ~(LangCode(curDir) \in DOMAIN APPNAME_LOCALIZED)
       THEN /\ Raise("KeyError")
            /\ UNCHANGED <<files, pc, steps>>
       ELSE \E rc \in ReturnCodes :
            IF Failed(rc)
            THEN /\ Raise("ProcessorError: plutil")
                 /\ UNCHANGED <<files, pc, steps>>
            ELSE /\ files' = [files EXCEPT ![cur].form = "xml1"]
                 /\ pc' = "n_open"
                 /\ Log(cur, "plist_to_xml")
                 /\ NoRaise
    /\ UNCHANGED <<appIdx, todoDirs, curDir, todoFiles, cur, lineNo, tmpCur, sizeIdx>>
    /\ UNCHANGED <<env, tree, bak, icons, tmp, orig, visited, finished, skipped, second>>

\* line 157: open the shadow file for writing and the file for reading
ReplaceNibOpen ==
    /\ status = "running" /\ pc = "n_open"
    /\ bak' = [bak EXCEPT ![BackupFile(cur)] = [form |-> "xml1", text |-> <<>>]]
    /\ lineNo' = 0
    /\ pc' = "n_write"
    /\ Log(cur, "open_shadow")
    /\ NoRaise
    /\ UNCHANGED <<appIdx, todoDirs, curDir, todoFiles, cur, tmpCur, sizeIdx>>
    /\ UNCHANGED <<env, tree, files, icons, tmp, orig, visited, finished, skipped, second>>

\* lines 158-161: one turn of 'for line in fr', or the end of the with block
ReplaceNibLine ==
    /\ status = "running" /\ pc = "n_write"
    /\ LET lines == ReadLines(files[cur].text)
           localized == APPNAME_LOCALIZED[LangCode(curDir)]
       IN  IF lineNo < Len(lines)
           THEN /\ bak' = [bak EXCEPT ![BackupFile(cur)].text =
                               @ \o NibLine(lines[lineNo + 1], localized, env.app_name)]
                /\ lineNo' = lineNo + 1
                /\ UNCHANGED <<pc, steps>>
           ELSE /\ pc' = "n_remove"
                /\ Log(cur, "write_shadow")
                /\ UNCHANGED <<bak, lineNo>>
    /\ NoRaise
    /\ UNCHANGED <<appIdx, todoDirs, curDir, todoFiles, cur, tmpCur, sizeIdx>>
    /\ UNCHANGED <<env, tree, files, icons, tmp, orig, visited, finished, skipped, second>>

\* line 162: os.remove(nib_file)
ReplaceNibRemove ==
    /\ status = "running" /\ pc = "n_remove"
    /\ files' = [files EXCEPT ![cur] = NoFile]
    /\ pc' = "n_rename"
    /\ Log(cur, "remove")
    /\ NoRaise
    /\ UNCHANGED <<appIdx, todoDirs, curDir, todoFiles, cur, lineNo, tmpCur, sizeIdx>>
    /\ UNCHANGED <<env, tree, bak, icons, tmp, orig, visited, finished, skipped, second>>

\* line 163: os.rename(backup_file, nib_file)
ReplaceNibRename ==
    /\ status = "running" /\ pc = "n_rename"
    /\ files' = [files EXCEPT ![cur] = bak[BackupFile(cur)]]
    /\ bak' = [bak EXCEPT ![BackupFile(cur)] = NoFile]
    /\ pc' = "n_binary"
    /\ Log(cur, "rename")
    /\ NoRaise
    /\ UNCHANGED <<appIdx, todoDirs, curDir, todoFiles, cur, lineNo, tmpCur, sizeIdx>>
    /\ UNCHANGED <<env, tree, icons, tmp, orig, visited, finished, skipped, second>>

\* line 164: plutil -convert binary1; replace_nib returns
PlistToBinary ==
    /\ status = "running" /\ pc = "n_binary"
    /\ \E rc \in ReturnCodes :
       IF Failed(rc)
       THEN /\ Raise("ProcessorError: plutil")
            /\ UNCHANGED <<files, pc, steps, finished, cur>>
       ELSE /\ files' = [files EXCEPT ![cur].form = "binary1"]
            /\ Log(cur, "plist_to_binary")
            /\ finished' = finished \cup {cur}
            /\ cur' = NoPath
            /\ pc' = "file"
            /\ NoRaise
    /\ UNCHANGED <<appIdx, todoDirs, curDir, todoFiles, lineNo, tmpCur, sizeIdx>>
    /\ UNCHANGED <<env, tree, bak, icons, tmp, orig, visited, skipped, second>>

----------------------------------------------------------------------------
(* main, lines 206-223, and convert_to_icns, lines 166-180.                *)

\* 'for hw, suffix in ICON_SIZES': entry i is still to be resampled
SizesLeftButLast(i) == i < Len(ICON_SIZES)
SizesLeft(i) == i <= Len(ICON_SIZES)

\* lines 206-209 and 222-223: is there an icon, does it exist, is it a .png
CheckIcon ==
    /\ status = "running" /\ pc = "icon"
    /\ IF ~env.icon_file.given
       THEN /\ appIdx' = appIdx + 1
            /\ pc' = "app"
            /\ NoRaise
       ELSE IF ~env.icon_file.exists
       THEN /\ Raise("ProcessorError: does not exist")
            /\ UNCHANGED <<appIdx, pc>>
       ELSE /\ pc' = IF env.icon_file.ext = "png" THEN "i_mkdtemp" ELSE "i_copy"
            /\ NoRaise
            /\ UNCHANGED appIdx
    /\ UNCHANGED <<todoDirs, curDir, todoFiles, cur, lineNo, tmpCur, sizeIdx>>
    /\ UNCHANGED <<env, tree, world, hist>>

\* line 168: temp_dir = mkdtemp(), a directory that did not exist before
Mkdtemp ==
    /\ status = "running" /\ pc = "i_mkdtemp"
    /\ tmp' = Append(tmp, [iconset |-> FALSE, renditions |-> <<>>, icns |-> FALSE])
    /\ tmpCur' = Len(tmp) + 1
    /\ pc' = "i_mkdir"
    /\ NoRaise
    /\ UNCHANGED <<appIdx, todoDirs, curDir, todoFiles, cur, lineNo, sizeIdx>>
    /\ UNCHANGED <<env, tree, files, bak, icons, hist>>

\* line 172: os.mkdir(iconset)
MkdirIconset ==
    /\ status = "running" /\ pc = "i_mkdir"
    /\ tmp' = [tmp EXCEPT ![tmpCur].iconset = TRUE]
    /\ sizeIdx' = 1
    /\ pc' = "i_sips"
    /\ NoRaise
    /\ UNCHANGED <<appIdx, todoDirs, curDir, todoFiles, cur, lineNo, tmpCur>>
    /\ UNCHANGED <<env, tree, files, bak, icons, hist>>

\* lines 173-176: one sips call writing icon_<suffix>.png, or the end of the loop
Sips ==
    /\ status = "running" /\ pc = "i_sips"
    /\ IF SizesLeft(sizeIdx)
       THEN \E rc \in ReturnCodes :
            IF Failed(rc)
            THEN /\ Raise("ProcessorError: sips")
                 /\ UNCHANGED <<tmp, sizeIdx, pc>>
            ELSE /\ tmp' = [tmp EXCEPT ![tmpCur].renditions = Append(@, ICON_SIZES[sizeIdx])]
                 /\ sizeIdx' = sizeIdx + 1
                 /\ NoRaise
                 /\ UNCHANGED pc
       ELSE /\ pc' = "i_iconutil"
            /\ NoRaise
            /\ UNCHANGED <<tmp, sizeIdx>>
    /\ UNCHANGED <<appIdx, todoDirs, curDir, todoFiles, cur, lineNo, tmpCur>>
    /\ UNCHANGED <<env, tree, files, bak, icons, hist>>

\* lines 177-180: iconutil -c icns; convert_to_icns returns the .icns path
Iconutil ==
    /\ status = "running" /\ pc = "i_iconutil"
    /\ \E rc \in ReturnCodes :
       IF Failed(rc)
       THEN /\ Raise("ProcessorError: iconutil")
            /\ UNCHANGED <<tmp, pc>>
       ELSE /\ tmp' = [tmp EXCEPT ![tmpCur].icns = TRUE]
            /\ pc' = "i_copy"
            /\ NoRaise
    /\ UNCHANGED <<appIdx, todoDirs, curDir, todoFiles, cur, lineNo, tmpCur, sizeIdx>>
    /\ UNCHANGED <<env, tree, files, bak, icons, hist>>

\* lines 214-221: shutil.copyfile(icon_file, dest); the next app follows
CopyIcon ==
    /\ status = "running" /\ pc = "i_copy"
    /\ icons' = [icons EXCEPT ![appIdx] =
                    IF tmpCur = 0 THEN [kind |-> "supplied", from |-> 0]
                    ELSE [kind |-> "converted", from |-> tmpCur]]
    /\ tmpCur' = 0
    /\ appIdx' = appIdx + 1
    /\ pc' = "app"
    /\ NoRaise
    /\ UNCHANGED <<todoDirs, curDir, todoFiles, cur, lineNo, sizeIdx>>
    /\ UNCHANGED <<env, tree, files, bak, tmp, hist>>

----------------------------------------------------------------------------
(* The environment of a run.                                               *)

\* The process is interrupted or killed between two steps.
Interrupt ==
    /\ status = "running"
    /\ status' = "aborted"
    /\ error' = "Interrupt"
    /\ UNCHANGED <<env, tree, world, ctl, hist>>

\* The harness runs the processor again, with the same input, on the tree a
\* first run that returned has left.
Rerun ==
    /\ status = "done" /\ ~second
    /\ second' = TRUE
    /\ orig' = files
    /\ visited' = <<>>
    /\ finished' = {}
    /\ steps' = [p \in Paths |-> <<>>]
    /\ skipped' = {}
    /\ appIdx' = 1
    /\ pc' = "app"
    /\ status' = "running"
    /\ UNCHANGED <<todoDirs, curDir, todoFiles, cur, lineNo, tmpCur, sizeIdx>>
    /\ UNCHANGED <<error, env, tree, world>>

Walk ==
    \/ GlobLproj
    \/ MainReturn
    \/ NextLproj
    \/ NextFile
    \/ ReplaceStringsOpen
    \/ ReplaceStringsLine
    \/ ReplaceStringsRemove
    \/ ReplaceStringsRename
    \/ PlistToXml
    \/ ReplaceNibOpen
    \/ ReplaceNibLine
    \/ ReplaceNibRemove
    \/ ReplaceNibRename
    \/ PlistToBinary
    \/ CheckIcon

Next ==
    \/ Walk
    \/ Mkdtemp
    \/ MkdirIconset
    \/ Sips
    \/ Iconutil
    \/ CopyIcon
    \/ Interrupt

NextText ==
    \/ Walk
    \/ Rerun

\* One run on the full tree, which may be interrupted.
Spec == Init /\ [][Next]_vars

\* Runs on one resource file of any text, and a second run after the first.
SpecText == InitText /\ [][NextText]_vars

----------------------------------------------------------------------------
(* What the specification says a rewritten text is, stated by position and *)
(* independently of the line loop of the code.                             *)

\* the positions at which name occurs in text
Occurrences(text, name) ==
    {i \in 1..(Len(text) - Len(name) + 1) : SubSeq(text, i, i + Len(name) - 1) = name}

RECURSIVE Concat(_)
Concat(ss) == IF ss = <<>> THEN <<>> ELSE Head(ss) \o Concat(Tail(ss))

\* text with the occurrences of name that start at a position of 'at'
\* replaced by new, and every other token kept
ReplacedAt(text, name, new, at) ==
    LET occ == Occurrences(text, name) \cap at
    IN  Concat([i \in 1..Len(text) |->
            IF i \in occ THEN new
            ELSE IF \E j \in occ : j < i /\ i < j + Len(name) THEN <<>>
            ELSE <<text[i]>>])

\* the first position of the line that position i lies in
LineStart(text, i) ==
    CHOOSE s \in 1..i :
        /\ s = 1 \/ text[s - 1] = "NL"
        /\ \A j \in s..(i - 1) : text[j] # "NL"

\* position i lies right of the first separator of a line that is no comment
InValue(text, i) ==
    LET s == LineStart(text, i)
    IN  /\ text[s] # "/*"
        /\ \E j \in s..(i - 1) : text[j] = "="

ValuePositions(text) == {i \in 1..Len(text) : InValue(text, i)}

\* the positions the rewrite of a resource file looks at
Scanned(p, text) ==
    IF Fnmatch(p, "strings") THEN ValuePositions(text) ELSE 1..Len(text)

IsResource(p) == Fnmatch(p, "strings") \/ Fnmatch(p, "nib")

\* the resource files in directories whose language code is a key of the table
KnownResources == {p \in tree : IsResource(p) /\ p.dir[1] \in DOMAIN APPNAME_LOCALIZED}

\* the files in directories whose language code is no key of the table
UnknownFiles == {p \in tree : p.dir[1] \notin DOMAIN APPNAME_LOCALIZED}

\* the text the specification gives a known resource file after the run
ExpectedText(p) ==
    ReplacedAt(orig[p].text, APPNAME_LOCALIZED[p.dir[1]], env.app_name,
               Scanned(p, orig[p].text))

\* the file the specification leaves at path p after a run without error
ExpectedFile(p) ==
    IF p \in KnownResources
    THEN [form |-> NativeForm(p), text |-> ExpectedText(p)]
    ELSE orig[p]

Visited == {visited[i] : i \in DOMAIN visited}

Swapped(p) == \E i \in DOMAIN steps[p] : steps[p][i] = "rename"

ToolErrors == {"ProcessorError: plutil", "ProcessorError: sips", "ProcessorError: iconutil"}

----------------------------------------------------------------------------
(* C1: every line of a .strings file of a known language is written: a     *)
(* comment line or a line without separator unchanged, any other line      *)
(* split at its first separator with only the right-hand segment changed,  *)
(* by replacing the localized name; lines keep their number and order.     *)
(* As the code stands, a line with two or more separators raises           *)
(* ValueError and the file is never written.                               *)
C1_StringsFileRewritten ==
    \A p \in Visited :
        (Fnmatch(p, "strings") /\ (p \in finished \/ status = "aborted")) =>
            /\ p \in finished
            /\ error # "ValueError"
            /\ files[p].text = ExpectedText(p)


----------------------------------------------------------------------------
(* C2: a file under an lproj directory whose language code is no key of    *)
(* APPNAME_LOCALIZED is never handed to replace_strings or replace_nib, no *)
(* step is taken on it, no shadow file is made for it, it holds what it    *)
(* held at the start, and passing over its directory raises nothing.       *)
C2_UnknownLanguageUntouched ==
    /\ \A p \in UnknownFiles :
          /\ p \notin Visited
          /\ steps[p] = <<>>
          /\ bak[p] = NoFile
          /\ files[p] = orig[p]
    /\ error # "KeyError"
    /\ \A d \in skipped : d[2][1] \notin DOMAIN APPNAME_LOCALIZED

\* The run has returned, it passed over xx.lproj, and it rewrote a file of
\* en.lproj in the same application.
C2_Witness ==
    /\ status = "done"
    /\ <<1, <<"xx", "lproj">>>> \in skipped
    /\ files[EnStrings] # orig[EnStrings]
    /\ files[XxStrings] = orig[XxStrings]

----------------------------------------------------------------------------
(* C3: when the run has aborted, every resource file is present and holds  *)
(* either its original content in its original form or its rewritten       *)
(* content in its final form; and while a file is removed, its shadow file *)
(* is complete.  As the code stands, the file is missing between           *)
(* os.remove and os.rename, and a .nib file stays in xml1 form when the    *)
(* run ends between the two plutil calls.                                  *)
C3_PerFileAtomic ==
    /\ status = "aborted" =>
          \A p \in tree : files[p] = orig[p] \/ files[p] = ExpectedFile(p)
    /\ \A p \in KnownResources :
          files[p] = NoFile => bak[p].text = ExpectedText(p)

----------------------------------------------------------------------------
(* C4: when the icon path is given and no file exists there, the run       *)
(* aborts before replace_strings or replace_nib was called on any file,    *)
(* with the tree as it was.  As the code stands, the icon is looked at     *)
(* only after the lproj directories of the first application were walked.  *)
C4_MissingIconBeforeAnyRewrite ==
    (status = "aborted" /\ error = "ProcessorError: does not exist") =>
        /\ visited = <<>>
        /\ files = orig

----------------------------------------------------------------------------
(* C5, as stated: a second run with the same desired name, on the tree a   *)
(* first run that returned has left, changes no file.                      *)
C5_SecondRunChangesNothing ==
    (second /\ status = "done") => files = orig

\* no occurrence of the localized name is left where the rewrite looks, in
\* the tree the current run started on
NoneLeft ==
    \A p \in KnownResources :
        Occurrences(orig[p].text, APPNAME_LOCALIZED[p.dir[1]])
            \cap Scanned(p, orig[p].text) = {}

\* the desired name is not empty and has no token of the localized name of
\* any known language directory of the tree
ForeignName ==
    /\ env.app_name # <<>>
    /\ \A p \in KnownResources :
          \A i \in DOMAIN env.app_name :
              ~Contains(APPNAME_LOCALIZED[p.dir[1]], env.app_name[i])

(* C5, amended: a second run changes no file when the tree the first run   *)
(* left holds no occurrence of the localized name where the rewrite looks; *)
(* and it holds none when the desired name is not empty and shares no      *)
(* token with the localized name.                                          *)
C5_SecondRunChangesNothingWhenNoneLeft ==
    second =>
        /\ (status = "done" /\ NoneLeft) => files = orig
        /\ ForeignName => NoneLeft

\* A second run has returned on a file that the first run had put the
\* desired name into ("Ace" is no token of an original text).
C5_Witness ==
    /\ second /\ status = "done" /\ NoneLeft
    /\ \E p \in finished : Contains(orig[p].text, "Ace") /\ files[p] = orig[p]

----------------------------------------------------------------------------
(* C6: an exception ends the run at once; after that nothing changes: no   *)
(* file, shadow file, icon or temporary directory is touched and no        *)
(* statement runs again; no step is taken twice on a file; and a file      *)
(* that was swapped holds its rewritten text from then on.                 *)
C6_AbortIsFinal ==
    [][ /\ error' # "none" => status' = "aborted"
        /\ status = "aborted" => UNCHANGED vars
        /\ \A p \in tree :
              /\ \A i, j \in DOMAIN steps'[p] : steps'[p][i] = steps'[p][j] => i = j
              /\ Swapped(p) => (Swapped(p)' /\ files'[p].text = ExpectedText(p)) ]_vars

\* A tool has failed after a file was swapped, and the file is rewritten.
C6_Witness ==
    /\ status = "aborted" /\ error \in ToolErrors
    /\ Swapped(EnStrings)
    /\ files[EnStrings] # orig[EnStrings]
    /\ files[EnStrings].text = ExpectedText(EnStrings)

----------------------------------------------------------------------------
(* C7: for a .png icon, an application's icon is replaced only by the      *)
(* .icns of a temporary directory that holds the 10 renditions of          *)
(* ICON_SIZES, made in list order, and was compiled; when sips or iconutil *)
(* fails, the icon of the application at hand is the original one.  For    *)
(* any other icon file, no temporary directory is made and the file itself *)
(* is copied.  A run that returns has replaced both icons.                 *)
C7_IconOnlyAfterConversion ==
    /\ \A a \in DOMAIN APPS :
          /\ icons[a].kind = "converted" =>
                /\ env.icon_file.ext = "png"
                /\ icons[a].from \in DOMAIN tmp
                /\ tmp[icons[a].from].iconset
                /\ tmp[icons[a].from].renditions = ICON_SIZES
                /\ Len(tmp[icons[a].from].renditions) = 10
                /\ tmp[icons[a].from].icns
          /\ icons[a].kind = "supplied" =>
                env.icon_file.given /\ env.icon_file.exists /\ env.icon_file.ext # "png"
          /\ (status = "done" /\ env.icon_file.given) => icons[a].kind # "original"
    /\ env.icon_file.ext # "png" => tmp = <<>>
    /\ (status = "aborted" /\ error \in {"ProcessorError: sips", "ProcessorError: iconutil"}) =>
          icons[appIdx] = OriginalIcon

\* Both applications have got an icon converted from the .png, each from a
\* temporary directory of its own.
C7_Witness ==
    /\ status = "done"
    /\ icons[1].kind = "converted" /\ icons[2].kind = "converted"
    /\ icons[1].from # icons[2].from

----------------------------------------------------------------------------
(* C8: when the run has ended, by returning or by a failed tool, no        *)
(* temporary directory made by convert_to_icns exists.  As the code        *)
(* stands, nothing removes the directory mkdtemp made.                     *)
C8_TempDirsRemoved ==
    (status = "done" \/ (status = "aborted" /\ error \in ToolErrors)) => tmp = <<>>

----------------------------------------------------------------------------
(* C9: the steps taken on a .nib file are, in this order, plist_to_xml,    *)
(* the opening and the writing of the shadow file, os.remove, os.rename    *)
(* and plist_to_binary; once replace_nib has returned the file is in       *)
(* binary1 form and its text is the original text with every occurrence    *)
(* of the localized name, wherever it is, replaced by the desired name.    *)
NibSteps ==
    <<"plist_to_xml", "open_shadow", "write_shadow", "remove", "rename", "plist_to_binary">>

C9_NibRewrite ==
    \A p \in tree :
        Fnmatch(p, "nib") =>
            /\ Len(steps[p]) <= Len(NibSteps)
            /\ steps[p] = SubSeq(NibSteps, 1, Len(steps[p]))
            /\ p \in finished =>
                  /\ steps[p] = NibSteps
                  /\ files[p].form = "binary1"
                  /\ files[p].text =
                        ReplacedAt(orig[p].text, APPNAME_LOCALIZED[p.dir[1]],
                                   env.app_name, 1..Len(orig[p].text))

\* replace_nib has returned on a text whose first line ends after the first
\* word of the name and whose second line holds the name, and has replaced
\* the occurrence in the second line.
C9_Witness ==
    /\ ~second
    /\ EnNib \in finished
    /\ orig[EnNib].text = <<"Managed", "NL", "Managed", "Center">>
    /\ files[EnNib].text = <<"Managed", "NL">> \o env.app_name
    /\ files[EnNib].text # orig[EnNib].text

----------------------------------------------------------------------------
(* C10: in whatever order the lproj directories and their files are        *)
(* visited, a run that returns leaves at every path the file that depends  *)
(* on that path's original file alone; and at any time a file other than   *)
(* the one being rewritten is either as it was or as it will be.           *)
C10_OrderIndependent ==
    /\ status = "done" => \A p \in tree : files[p] = ExpectedFile(p)
    /\ \A p \in tree :
          p # cur =>
              /\ files[p] \in {orig[p], ExpectedFile(p)}
              /\ p \in finished => files[p] = ExpectedFile(p)
              /\ bak[p] = NoFile

\* A run has returned that visited the .nib file of en.lproj before its
\* .strings file (the other order is reached too) and rewrote both.
C10_Witness ==
    /\ status = "done"
    /\ SubSeq(visited, 1, 2) = <<EnNib, EnStrings>>
    /\ files[EnStrings] # orig[EnStrings]
    /\ files[EnNib] # orig[EnNib]

====
